---- MODULE Spec2Model ----
(***************************************************************************)
(* Flag value adapters of pkg/cmdutil/flags.go: nilable string, nilable    *)
(* bool, enum string, enum string-slice and regexp string flags.           *)
(*                                                                         *)
(* A Go string is a sequence of one-character strings, so that case        *)
(* folding, splitting, joining and quoting are computed character by       *)
(* character.  A nilable target, a pointer to a pointer, is a record with  *)
(* a presence bit; an absent target has a normalised value.                *)
(***************************************************************************)
EXTENDS Integers, Sequences, FiniteSets, TLC

\* ------------------------------------------------------------------ bounds

\* Longest raw argument given to the nilable string flag.
MaxStringLen == 2
\* Longest raw argument given to the enum string flag.
MaxEnumLen == 2
\* Longest raw argument given to the enum string-slice flag.
MaxSliceLen == 3
\* Longest raw argument given to the regexp string flag.
MaxRegexpLen == 2
\* Longest raw argument given to the nilable bool flag.
MaxBoolLen == 5

\* ------------------------------------------------------- strings (Go runtime)

LowerLetters ==
    <<"a","b","c","d","e","f","g","h","i","j","k","l","m",
      "n","o","p","q","r","s","t","u","v","w","x","y","z">>

UpperLetters ==
    <<"A","B","C","D","E","F","G","H","I","J","K","L","M",
      "N","O","P","Q","R","S","T","U","V","W","X","Y","Z">>

\* Position of an ASCII letter in its alphabet, 0 for any other character.
LetterIndex(letters, c) ==
    IF \E i \in 1..26 : letters[i] = c
    THEN CHOOSE i \in 1..26 : letters[i] = c
    ELSE 0

\* All strings over alphabet of length at most n.
StringsUpTo(alphabet, n) == UNION { [1..k -> alphabet] : k \in 0..n }

\* s + t + ... for a sequence of strings.
RECURSIVE Concat(_)
Concat(parts) ==
    IF parts = <<>> THEN <<>> ELSE Head(parts) \o Concat(Tail(parts))

\* The pairs <<upper-case letter, its lower-case letter>> of ASCII.
FoldPairs == { <<UpperLetters[i], LowerLetters[i]>> : i \in 1..26 }

\* strings.EqualFold restricted to ASCII: the characters are compared pairwise;
\* two different characters are equal under folding exactly when the smaller is
\* an upper-case letter 'A'..'Z' and the larger is that letter + 'a' - 'A'.
EqualFoldChar(sr, tr) ==
    \/ sr = tr
    \/ <<sr, tr>> \in FoldPairs
    \/ <<tr, sr>> \in FoldPairs

RECURSIVE EqualFold(_, _)
EqualFold(s, t) ==
    IF s = <<>> \/ t = <<>>
    THEN s = t
    ELSE EqualFoldChar(Head(s), Head(t)) /\ EqualFold(Tail(s), Tail(t))

\* strings.Index(s, sep) for a one-character separator, 1-based; 0 if absent.
IndexOf(s, sep) ==
    IF \E i \in 1..Len(s) : s[i] = sep
    THEN CHOOSE i \in 1..Len(s) : s[i] = sep /\ \A j \in 1..(i - 1) : s[j] # sep
    ELSE 0

\* strings.Split(s, sep) for a one-character separator: the substrings between
\* the separators, n + 1 items for n separators, so Split("", ",") = [""].
RECURSIVE Split(_, _)
Split(s, sep) ==
    LET i == IndexOf(s, sep)
    IN  IF i = 0
        THEN <<s>>
        ELSE <<SubSeq(s, 1, i - 1)>> \o Split(SubSeq(s, i + 1, Len(s)), sep)

\* strings.Join(elems, sep).
RECURSIVE Join(_, _)
Join(elems, sep) ==
    IF Len(elems) = 0 THEN <<>>
    ELSE IF Len(elems) = 1 THEN elems[1]
    ELSE elems[1] \o sep \o Join(Tail(elems), sep)

\* strconv.Quote / the %q verb: the string between double quotes, with a double
\* quote and a backslash inside it escaped by a backslash.  (The other escapes
\* of %q concern control and non-printable characters, which no alphabet of
\* this model contains.)
QuoteChar(c) ==
    IF c = "\"" \/ c = "\\" THEN <<"\\", c>> ELSE <<c>>

Quote(s) ==
    <<"\"">> \o Concat([i \in 1..Len(s) |-> QuoteChar(s[i])]) \o <<"\"">>


\* A parse that lower-cases its input before the switch.
ParseBool_FoldCase(str) ==
    CASE \E w \in { <<"1">>, <<"t">>, <<"t","r","u","e">> } : EqualFold(str, w) ->
            [v |-> TRUE, err |-> "nil", msg |-> <<>>]
      [] \E w \in { <<"0">>, <<"f">>, <<"f","a","l","s","e">> } : EqualFold(str, w) ->
            [v |-> FALSE, err |-> "nil", msg |-> <<>>]
      [] OTHER ->
            [v |-> FALSE, err |-> "ParseError",
             msg |-> <<"s","t","r","c","o","n","v",".","P","a","r","s","e","B","o","o","l",
                       ":"," ","p","a","r","s","i","n","g"," ">>
                     \o Quote(str)
                     \o <<":"," ","i","n","v","a","l","i","d"," ","s","y","n","t","a","x">>]

\* strconv.ParseBool: the accepted spellings are exactly the cases of its switch.
ParseBool(str) ==
    CASE str \in { <<"1">>, <<"t">>, <<"T">>, <<"T","R","U","E">>,
                   <<"t","r","u","e">>, <<"T","r","u","e">> } ->
            [v |-> TRUE, err |-> "nil", msg |-> <<>>]
      [] str \in { <<"0">>, <<"f">>, <<"F">>, <<"F","A","L","S","E">>,
                   <<"f","a","l","s","e">>, <<"F","a","l","s","e">> } ->
            [v |-> FALSE, err |-> "nil", msg |-> <<>>]
      [] OTHER ->
            [v |-> FALSE, err |-> "ParseError",
             msg |-> <<"s","t","r","c","o","n","v",".","P","a","r","s","e","B","o","o","l",
                       ":"," ","p","a","r","s","i","n","g"," ">>
                     \o Quote(str)
                     \o <<":"," ","i","n","v","a","l","i","d"," ","s","y","n","t","a","x">>]

\* ------------------------------------------------------------------- state

Kinds == {"string", "bool", "enum", "slice", "regexp"}

AbsentString == [present |-> FALSE, val |-> <<>>]
AbsentBool == [present |-> FALSE, val |-> FALSE]
NoCall == [some |-> FALSE, arg |-> <<>>]

VARIABLES
    registered,   \* the kinds whose flag has been defined on the command
    strP,         \* *p of NilStringFlag: the caller's *string
    boolP,        \* *p of NilBoolFlag: the caller's *bool
    enumP,        \* *p of StringEnumFlag: the caller's string
    enumOptions,  \* enumValue.options
    sliceP,       \* *p of StringSliceEnumFlag: the caller's []string
    sliceOptions, \* enumMultiValue.options
    reP,          \* *p of StringRegexpFlag: the caller's string
    re,           \* regexpValue.re
    call,         \* history: the operation of the last step and what it returned
    pre,          \* history: the five targets as they were before the last step
    lastOK,       \* history: per kind, the argument of the latest Set that returned nil
    dflt          \* history: per kind, the default given to the constructor

vars ==
    <<registered, strP, boolP, enumP, enumOptions, sliceP, sliceOptions, reP, re,
      call, pre, lastOK, dflt>>

Targets ==
    [string |-> strP, bool |-> boolP, enum |-> enumP, slice |-> sliceP, regexp |-> reP]

\* ------------------------------------------------- regular expressions in use

\* The patterns given to StringRegexpFlag: an optional ^, a run of decimal
\* digits of at least min characters, an optional $.
DigitsOnly == [bol |-> TRUE, eol |-> TRUE, min |-> 1]     \* ^\d+$
HasDigit   == [bol |-> FALSE, eol |-> FALSE, min |-> 1]   \* \d+
NoPattern  == [bol |-> FALSE, eol |-> FALSE, min |-> 0]   \* placeholder before construction

Digits == {"0", "1", "2", "3", "4", "5", "6", "7", "8", "9"}

\* regexp.MatchString: whether some substring s[i..j] of s matches the pattern
\* (a match need not cover s unless the pattern anchors it).
MatchString(pattern, s) ==
    \E i \in 1..(Len(s) + 1) :
        \E j \in (i - 1)..Len(s) :
            /\ pattern.bol => i = 1
            /\ pattern.eol => j = Len(s)
            /\ j - i + 1 >= pattern.min
            /\ \A k \in i..j : s[k] \in Digits

\* ---------------------------------------------------------------- adapters

NoError == [err |-> "nil", msg |-> <<>>]

\* formatValuesForUsageDocs: "{" + the values joined by "|" + "}".
formatValuesForUsageDocs(values) ==
    <<"{">> \o Join(values, <<"|">>) \o <<"}">>


\* A membership test that compares with ==.
isIncluded_ExactCase(value, opts) ==
    \E i \in 1..Len(opts) : opts[i] = value

\* isIncluded: whether some option equals value under case folding.
isIncluded(value, opts) ==
    \E i \in 1..Len(opts) : EqualFold(opts[i], value)


\* A Set that takes the empty string for "no value" and leaves the target.
stringValue_Set_SkipEmpty(p, value) ==
    IF value = <<>>
    THEN [target |-> p, err |-> "nil", msg |-> <<>>]
    ELSE [target |-> [present |-> TRUE, val |-> value], err |-> "nil", msg |-> <<>>]

\* stringValue.Set: the target points at a copy of value; never an error.
stringValue_Set(p, value) ==
    [target |-> [present |-> TRUE, val |-> value], err |-> "nil", msg |-> <<>>]

\* stringValue.String
stringValue_String(p) ==
    IF ~p.present THEN <<>> ELSE p.val


\* A Set that returns the error of the parse before assigning.
boolValue_Set_KeepOnError(p, value) ==
    LET parsed == ParseBool(value)
    IN  IF parsed.err # "nil"
        THEN [target |-> p, err |-> parsed.err, msg |-> parsed.msg]
        ELSE [target |-> [present |-> TRUE, val |-> parsed.v],
              err |-> "nil", msg |-> <<>>]

\* boolValue.Set: the target is assigned the parsed value before the error of
\* the parse is returned.
boolValue_Set(p, value) ==
    LET parsed == ParseBool(value)
    IN  [target |-> [present |-> TRUE, val |-> parsed.v],
         err |-> parsed.err, msg |-> parsed.msg]

\* boolValue.String
boolValue_String(p) ==
    IF ~p.present THEN <<"f","a","l","s","e">>
    ELSE IF p.val THEN <<"t","r","u","e">>
    ELSE <<"f","a","l","s","e">>


\* A Set that assigns before it matches.
regexpValue_Set_StoreFirst(p, pattern, value) ==
    IF ~MatchString(pattern, value)
    THEN [target |-> value, err |-> "PatternMismatch",
          msg |-> Quote(value)
                  \o <<" ","d","o","e","s"," ","n","o","t"," ","m","a","t","c","h"," ",
                       "r","e","g","e","x","p"," ","f","o","r","m","a","t">>]
    ELSE [target |-> value, err |-> "nil", msg |-> <<>>]

\* regexpValue.Set
regexpValue_Set(p, pattern, value) ==
    IF ~MatchString(pattern, value)
    THEN [target |-> p, err |-> "PatternMismatch",
          msg |-> Quote(value)
                  \o <<" ","d","o","e","s"," ","n","o","t"," ","m","a","t","c","h"," ",
                       "r","e","g","e","x","p"," ","f","o","r","m","a","t">>]
    ELSE [target |-> value, err |-> "nil", msg |-> <<>>]

\* regexpValue.String
regexpValue_String(p) == p

\* The error of enumValue.Set and enumMultiValue.Set.
ValidValuesAre(options) ==
    <<"v","a","l","i","d"," ","v","a","l","u","e","s"," ","a","r","e"," ">>
    \o formatValuesForUsageDocs(options)

\* enumValue.Set
enumValue_Set(p, options, value) ==
    IF ~isIncluded(value, options)
    THEN [target |-> p, err |-> "InvalidEnumValue", msg |-> ValidValuesAre(options)]
    ELSE [target |-> value, err |-> "nil", msg |-> <<>>]

\* enumValue.String
enumValue_String(p) == p


\* A Set that stores the items as it validates them, up to the first bad one.
enumMultiValue_Set_PartialWrite(p, options, value) ==
    LET items == Split(value, ",")
        bad == { i \in 1..Len(items) : ~isIncluded(items[i], options) }
    IN  IF bad # {}
        THEN [target |-> SubSeq(items, 1, (CHOOSE i \in bad : \A j \in bad : i <= j) - 1),
              err |-> "InvalidEnumValue", msg |-> ValidValuesAre(options)]
        ELSE [target |-> items, err |-> "nil", msg |-> <<>>]

\* A Set that appends to the target, as pflag's own string slice does.
enumMultiValue_Set_Append(p, options, value) ==
    LET items == Split(value, ",")
    IN  IF \E i \in 1..Len(items) : ~isIncluded(items[i], options)
        THEN [target |-> p, err |-> "InvalidEnumValue", msg |-> ValidValuesAre(options)]
        ELSE [target |-> p \o items, err |-> "nil", msg |-> <<>>]

\* enumMultiValue.Set: the loop returns at the first item that is not included,
\* before the assignment that follows it.
enumMultiValue_Set(p, options, value) ==
    LET items == Split(value, ",")
    IN  IF \E i \in 1..Len(items) : ~isIncluded(items[i], options)
        THEN [target |-> p, err |-> "InvalidEnumValue", msg |-> ValidValuesAre(options)]
        ELSE [target |-> items, err |-> "nil", msg |-> <<>>]

\* enumMultiValue.String
enumMultiValue_String(p) ==
    <<"{">> \o Join(p, <<",", " ">>) \o <<"}">>


\* A constructor that keeps the target when the default is outside the domain.
StringEnumFlag_Store_Validated(p, defaultValue, options) ==
    IF isIncluded(defaultValue, options) THEN defaultValue ELSE p

\* What the constructors store into *p: the default, as given.
StringEnumFlag_Store(p, defaultValue, options) == defaultValue

StringSliceEnumFlag_Store(p, defaultValues, options) == defaultValues

StringRegexpFlag_Store(p, defaultValue, pattern) == defaultValue

\* ------------------------------------------------------------------ inputs

\* What the caller's variables may hold before the flags are defined: the zero
\* value, or something the caller assigned.
PriorStrings == { <<>>, <<"o">> }

\* Enum domains and defaults, inside and outside the domain.
OptionsAB == << <<"a">>, <<"b">> >>
OptionsBab == << <<"B">>, <<"a","b">> >>
EnumDefaults == { <<"a">>, <<"z">> }
SliceDefaults == { <<>>, << <<"z">> >> }
RegexpDefaults == { <<"1">>, <<"a">> }

StringAlphabet == {"a", "b", " "}
EnumAlphabet == {"a", "A", "b", "B"}
SliceAlphabet == {"a", "B", ","}
RegexpAlphabet == {"1", "a", "\"", "\\"}

StringArgs == StringsUpTo(StringAlphabet, MaxStringLen)
EnumArgs == StringsUpTo(EnumAlphabet, MaxEnumLen)
SliceArgs == StringsUpTo(SliceAlphabet, MaxSliceLen)
RegexpArgs == StringsUpTo(RegexpAlphabet, MaxRegexpLen)

\* Both cases of a character.
BothCases(c) ==
    IF LetterIndex(LowerLetters, c) # 0 THEN {c, UpperLetters[LetterIndex(LowerLetters, c)]}
    ELSE IF LetterIndex(UpperLetters, c) # 0 THEN {c, LowerLetters[LetterIndex(UpperLetters, c)]}
    ELSE {c}

\* Every casing of a word.
RECURSIVE CaseVariants(_)
CaseVariants(word) ==
    IF word = <<>> THEN { <<>> }
    ELSE { <<c>> \o rest : c \in BothCases(Head(word)), rest \in CaseVariants(Tail(word)) }

BoolWords ==
    { <<>>, <<"1">>, <<"0">>, <<"2">>, <<"t">>, <<"f">>, <<"y","e","s">>,
      <<"t","r","u","e">>, <<"f","a","l","s","e">>, <<"f","a","l","s","e","y">> }

\* The raw arguments given to the bool flag: every casing of the words above.
BoolArgs ==
    { w \in UNION { CaseVariants(b) : b \in BoolWords } : Len(w) <= MaxBoolLen }

\* The raw arguments of the command that defines all five flags.
CmdStringArgs == { <<>>, <<"a">> }
CmdBoolArgs == { <<"t","r","u","e">>, <<"0">>, <<"y","e","s">> }
CmdEnumArgs == { <<"B">>, <<"z">> }
CmdSliceArgs == { <<>>, <<"A",",","b">>, <<"a",",","z">> }
CmdRegexpArgs == { <<"1","2">>, <<"1","a">> }

\* ------------------------------------------------------------------ actions

Returned(kind, op, arg, r) ==
    /\ call' = [kind |-> kind, op |-> op, arg |-> arg, err |-> r.err, msg |-> r.msg]
    /\ pre' = Targets
    /\ lastOK' = IF op = "Set" /\ r.err = "nil"
                 THEN [lastOK EXCEPT ![kind] = [some |-> TRUE, arg |-> arg]]
                 ELSE lastOK

Init ==
    /\ registered = {}
    /\ strP = AbsentString
    /\ boolP = AbsentBool
    /\ \E prior \in PriorStrings :
           /\ enumP = prior
           /\ sliceP = (IF prior = <<>> THEN <<>> ELSE <<prior>>)
           /\ reP = prior
    /\ enumOptions = <<>>
    /\ sliceOptions = <<>>
    /\ re = NoPattern
    /\ call = [kind |-> "none", op |-> "none", arg |-> <<>>, err |-> "nil", msg |-> <<>>]
    /\ pre = [string |-> strP, bool |-> boolP, enum |-> enumP, slice |-> sliceP,
              regexp |-> reP]
    /\ lastOK = [k \in Kinds |-> NoCall]
    /\ dflt = [enum |-> <<>>, slice |-> <<>>, regexp |-> <<>>]

\* NilStringFlag: the adapter is bound to p; nothing is written.
NilStringFlag ==
    /\ "string" \notin registered
    /\ registered' = registered \cup {"string"}
    /\ Returned("string", "new", <<>>, NoError)
    /\ UNCHANGED <<strP, boolP, enumP, enumOptions, sliceP, sliceOptions, reP, re, dflt>>

\* NilBoolFlag: the adapter is bound to p; nothing is written.
NilBoolFlag ==
    /\ "bool" \notin registered
    /\ registered' = registered \cup {"bool"}
    /\ Returned("bool", "new", <<>>, NoError)
    /\ UNCHANGED <<strP, boolP, enumP, enumOptions, sliceP, sliceOptions, reP, re, dflt>>

StringEnumFlag(defaultValue, options) ==
    /\ "enum" \notin registered
    /\ registered' = registered \cup {"enum"}
    /\ enumP' = StringEnumFlag_Store(enumP, defaultValue, options)
    /\ enumOptions' = options
    /\ dflt' = [dflt EXCEPT !.enum = defaultValue]
    /\ Returned("enum", "new", <<>>, NoError)
    /\ UNCHANGED <<strP, boolP, sliceP, sliceOptions, reP, re>>

StringSliceEnumFlag(defaultValues, options) ==
    /\ "slice" \notin registered
    /\ registered' = registered \cup {"slice"}
    /\ sliceP' = StringSliceEnumFlag_Store(sliceP, defaultValues, options)
    /\ sliceOptions' = options
    /\ dflt' = [dflt EXCEPT !.slice = defaultValues]
    /\ Returned("slice", "new", <<>>, NoError)
    /\ UNCHANGED <<strP, boolP, enumP, enumOptions, reP, re>>

StringRegexpFlag(defaultValue, pattern) ==
    /\ "regexp" \notin registered
    /\ registered' = registered \cup {"regexp"}
    /\ reP' = StringRegexpFlag_Store(reP, defaultValue, pattern)
    /\ re' = pattern
    /\ dflt' = [dflt EXCEPT !.regexp = defaultValue]
    /\ Returned("regexp", "new", <<>>, NoError)
    /\ UNCHANGED <<strP, boolP, enumP, enumOptions, sliceP, sliceOptions>>

\* One occurrence of the flag on the command line: pflag calls Set(value).
SetString(value) ==
    /\ "string" \in registered
    /\ LET r == stringValue_Set(strP, value)
       IN  /\ strP' = r.target
           /\ Returned("string", "Set", value, r)
    /\ UNCHANGED <<registered, boolP, enumP, enumOptions, sliceP, sliceOptions, reP, re, dflt>>

SetBool(value) ==
    /\ "bool" \in registered
    /\ LET r == boolValue_Set(boolP, value)
       IN  /\ boolP' = r.target
           /\ Returned("bool", "Set", value, r)
    /\ UNCHANGED <<registered, strP, enumP, enumOptions, sliceP, sliceOptions, reP, re, dflt>>

SetEnum(value) ==
    /\ "enum" \in registered
    /\ LET r == enumValue_Set(enumP, enumOptions, value)
       IN  /\ enumP' = r.target
           /\ Returned("enum", "Set", value, r)
    /\ UNCHANGED <<registered, strP, boolP, enumOptions, sliceP, sliceOptions, reP, re, dflt>>

SetSlice(value) ==
    /\ "slice" \in registered
    /\ LET r == enumMultiValue_Set(sliceP, sliceOptions, value)
       IN  /\ sliceP' = r.target
           /\ Returned("slice", "Set", value, r)
    /\ UNCHANGED <<registered, strP, boolP, enumP, enumOptions, sliceOptions, reP, re, dflt>>

SetRegexp(value) ==
    /\ "regexp" \in registered
    /\ LET r == regexpValue_Set(reP, re, value)
       IN  /\ reP' = r.target
           /\ Returned("regexp", "Set", value, r)
    /\ UNCHANGED <<registered, strP, boolP, enumP, enumOptions, sliceP, sliceOptions, re, dflt>>

\* ------------------------------------------------------------ specifications

\* A command that defines all five flags and parses a command line.
DefineEnum == \E d \in EnumDefaults : StringEnumFlag(d, OptionsAB)
DefineSlice == \E d \in SliceDefaults : StringSliceEnumFlag(d, OptionsAB)
DefineRegexp == \E d \in RegexpDefaults : StringRegexpFlag(d, DigitsOnly)
ParseString == \E v \in CmdStringArgs : SetString(v)
ParseBoolFlag == \E v \in CmdBoolArgs : SetBool(v)
ParseEnum == \E v \in CmdEnumArgs : SetEnum(v)
ParseSlice == \E v \in CmdSliceArgs : SetSlice(v)
ParseRegexp == \E v \in CmdRegexpArgs : SetRegexp(v)

Next ==
    \/ NilStringFlag
    \/ NilBoolFlag
    \/ DefineEnum
    \/ DefineSlice
    \/ DefineRegexp
    \/ ParseString
    \/ ParseBoolFlag
    \/ ParseEnum
    \/ ParseSlice
    \/ ParseRegexp

Spec == Init /\ [][Next]_vars

\* A command with a nilable string flag only.
StringAny == \E v \in StringArgs : SetString(v)
NextString == NilStringFlag \/ StringAny
SpecString == Init /\ [][NextString]_vars

\* A command with a nilable bool flag only.
BoolAny == \E v \in BoolArgs : SetBool(v)
NextBool == NilBoolFlag \/ BoolAny
SpecBool == Init /\ [][NextBool]_vars

\* A command with an enum string flag only.
EnumDefineAny == \E d \in EnumDefaults, o \in {OptionsAB, OptionsBab} : StringEnumFlag(d, o)
EnumAny == \E v \in EnumArgs : SetEnum(v)
NextEnum == EnumDefineAny \/ EnumAny
SpecEnum == Init /\ [][NextEnum]_vars

\* A command with an enum string-slice flag only.
SliceDefineAny ==
    \E d \in SliceDefaults, o \in {OptionsAB, OptionsBab} : StringSliceEnumFlag(d, o)
SliceAny == \E v \in SliceArgs : SetSlice(v)
NextSlice == SliceDefineAny \/ SliceAny
SpecSlice == Init /\ [][NextSlice]_vars

\* A command with a regexp string flag only.
RegexpDefineAny ==
    \E d \in RegexpDefaults, pattern \in {DigitsOnly, HasDigit} : StringRegexpFlag(d, pattern)
RegexpAny == \E v \in RegexpArgs : SetRegexp(v)
NextRegexp == RegexpDefineAny \/ RegexpAny
SpecRegexp == Init /\ [][NextRegexp]_vars

\* ------------------------------------------------- vocabulary of the claims

IsSet(kind) == call.kind = kind /\ call.op = "Set"
IsNew(kind) == call.kind = kind /\ call.op = "new"

\* c in upper case.
ToUpperChar(c) ==
    IF LetterIndex(LowerLetters, c) # 0 THEN UpperLetters[LetterIndex(LowerLetters, c)] ELSE c

ToUpperWord(w) == [i \in 1..Len(w) |-> ToUpperChar(w[i])]

\* s and t are the same string when case is ignored.
SameIgnoringCase(s, t) == ToUpperWord(s) = ToUpperWord(t)

\* v is in the domain, case ignored.
InDomain(v, domain) == \E i \in 1..Len(domain) : SameIgnoringCase(v, domain[i])

\* msg contains v as a substring.
Contains(msg, v) ==
    \E i \in 0..(Len(msg) - Len(v)) : SubSeq(msg, i + 1, i + Len(v)) = v

\* msg ends with v.
EndsWith(msg, v) ==
    Len(msg) >= Len(v) /\ SubSeq(msg, Len(msg) - Len(v) + 1, Len(msg)) = v

\* The domain displayed as {a|b|c}, in domain order.
BraceList(domain) ==
    LET upTo[i \in 0..Len(domain)] ==
            IF i = 0 THEN <<"{">>
            ELSE upTo[i - 1] \o (IF i > 1 THEN <<"|">> ELSE <<>>) \o domain[i]
    IN  upTo[Len(domain)] \o <<"}">>

\* The comma-separated items of v, as a set: the maximal comma-free segments.
ItemsOf(v) ==
    { SubSeq(v, i, j) : <<i, j>> \in
        { ij \in (1..(Len(v) + 1)) \X (0..Len(v)) :
            /\ ij[2] >= ij[1] - 1
            /\ ij[1] = 1 \/ v[ij[1] - 1] = ","
            /\ ij[2] = Len(v) \/ v[ij[2] + 1] = ","
            /\ \A k \in ij[1]..ij[2] : v[k] # "," } }

\* items is the split sequence of v: no item holds a comma, and the items put
\* back together with commas between them are v.
IsSplitOf(items, v) ==
    LET glued[i \in 1..Len(items)] ==
            IF i = 1 THEN items[1] ELSE glued[i - 1] \o <<",">> \o items[i]
    IN  /\ Len(items) >= 1
        /\ \A i \in 1..Len(items) : \A k \in 1..Len(items[i]) : items[i][k] # ","
        /\ glued[Len(items)] = v

\* v matches the pattern.
Matches(pattern, v) ==
    IF pattern = DigitsOnly
    THEN Len(v) >= 1 /\ \A k \in 1..Len(v) : v[k] \in Digits
    ELSE \E k \in 1..Len(v) : v[k] \in Digits

\* v as Go prints it with %q.
GoQuoted(v) ==
    LET upTo[i \in 0..Len(v)] ==
            IF i = 0 THEN <<"\"">>
            ELSE upTo[i - 1] \o (IF v[i] \in {"\"", "\\"} THEN <<"\\">> ELSE <<>>) \o <<v[i]>>
    IN  upTo[Len(v)] \o <<"\"">>

DoesNotMatch ==
    <<" ","d","o","e","s"," ","n","o","t"," ","m","a","t","c","h"," ",
      "r","e","g","e","x","p"," ","f","o","r","m","a","t">>

\* The word, the word in upper case, the word capitalised.
ThreeCasings(w) == { w, ToUpperWord(w), <<ToUpperChar(w[1])>> \o Tail(w) }

TrueSpellings == { <<"1">> } \cup ThreeCasings(<<"t">>) \cup ThreeCasings(<<"t","r","u","e">>)
FalseSpellings ==
    { <<"0">> } \cup ThreeCasings(<<"f">>) \cup ThreeCasings(<<"f","a","l","s","e">>)

BoolLiterals ==
    { <<"t","r","u","e">>, <<"f","a","l","s","e">>, <<"t">>, <<"f">>, <<"1">>, <<"0">> }

PresentString(v) == [present |-> TRUE, val |-> v]
PresentBool(b) == [present |-> TRUE, val |-> b]

\* ------------------------------------------------------------------ claims

\* C1: for every adapter kind, a Set that returns an error leaves the bound
\* target exactly as it was before the call (same presence, same value).
C1_FailedSetLeavesTarget ==
    (call.op = "Set" /\ call.err # "nil") => Targets[call.kind] = pre[call.kind]

\* C2: NilableString Set(v) returns no error for every v, the empty string
\* included, and whatever the target held; afterwards the target is present and
\* equals v and String() is v; String() of a target never set is empty.
C2_StringSetStores ==
    /\ IsSet("string") =>
          /\ call.err = "nil"
          /\ strP = PresentString(call.arg)
          /\ stringValue_String(strP) = call.arg
    /\ ~lastOK["string"].some =>
          /\ ~strP.present
          /\ stringValue_String(strP) = <<>>

\* C2 witness: the empty string set over a non-empty present value.
C2_Witness ==
    /\ IsSet("string")
    /\ call.arg = <<>>
    /\ pre.string.present /\ pre.string.val # <<>>
    /\ strP = PresentString(<<>>)

\* C3 as stated: NilableBool Set(v) succeeds exactly when v is one of true,
\* false, t, f, 1, 0 in any casing, storing the corresponding boolean, and
\* returns ParseError for every other string.
C3_BoolAnyCasing ==
    IsSet("bool") =>
        IF \E w \in BoolLiterals : SameIgnoringCase(call.arg, w)
        THEN /\ call.err = "nil"
             /\ boolP = PresentBool(\E w \in TrueSpellings : SameIgnoringCase(call.arg, w))
        ELSE call.err = "ParseError"

\* C3 amended: NilableBool Set(v) succeeds exactly when v is one of the twelve
\* spellings 1, t, T, true, TRUE, True, 0, f, F, false, FALSE, False, storing
\* the corresponding boolean, and returns ParseError for every other string,
\* other casings such as tRuE included.
C3_BoolGoSpellings ==
    IsSet("bool") =>
        /\ call.err = "nil" <=> call.arg \in TrueSpellings \cup FalseSpellings
        /\ call.arg \in TrueSpellings => boolP = PresentBool(TRUE)
        /\ call.arg \in FalseSpellings => boolP = PresentBool(FALSE)
        /\ call.arg \notin TrueSpellings \cup FalseSpellings => call.err = "ParseError"

\* C3 witness: a mixed casing of true is rejected.
C3_Witness ==
    /\ IsSet("bool")
    /\ call.arg = <<"t","R","u","E">>
    /\ call.err = "ParseError"

\* C4: when NilableBool Set(v) fails, the target is assigned all the same:
\* whatever it held, it is then present and false, and String() is "false".
C4_FailedBoolSetStoresFalse ==
    (IsSet("bool") /\ call.err # "nil") =>
        /\ boolP = PresentBool(FALSE)
        /\ boolValue_String(boolP) = <<"f","a","l","s","e">>

\* C4 witness: a failed Set on a target that held true.
C4_Witness ==
    /\ IsSet("bool")
    /\ call.err # "nil"
    /\ pre.bool = PresentBool(TRUE)
    /\ boolP = PresentBool(FALSE)

\* C5: enum Set(v) succeeds if and only if v equals some element of the domain
\* ignoring case; on success the target and String() are v as passed; on
\* failure the error is InvalidEnumValue and lists the domain as {a|b|c} in
\* domain order.
C5_EnumSet ==
    IsSet("enum") =>
        IF InDomain(call.arg, enumOptions)
        THEN /\ call.err = "nil"
             /\ enumP = call.arg
             /\ enumValue_String(enumP) = call.arg
        ELSE /\ call.err = "InvalidEnumValue"
             /\ EndsWith(call.msg, BraceList(enumOptions))

\* C5 witness: a value in another casing than the domain's is stored as passed.
C5_Witness ==
    /\ IsSet("enum")
    /\ call.err = "nil"
    /\ \A i \in 1..Len(enumOptions) : enumOptions[i] # call.arg
    /\ enumP = call.arg

\* C6: enum slice Set(v) is all-or-nothing: if any comma-separated item of v,
\* an empty item included, is not in the domain, the call fails with
\* InvalidEnumValue and the target is what it was before the call.
C6_SliceAllOrNothing ==
    (IsSet("slice") /\ \E item \in ItemsOf(call.arg) : ~InDomain(item, sliceOptions)) =>
        /\ call.err = "InvalidEnumValue"
        /\ sliceP = pre.slice

\* C6 witness: a valid first item followed by an empty one, on a target that an
\* earlier Set had filled.
C6_Witness ==
    /\ IsSet("slice")
    /\ call.arg = <<"a", ",">>
    /\ call.err = "InvalidEnumValue"
    /\ lastOK["slice"].some
    /\ sliceP # << <<"a">> >>

\* C7: when every comma-separated item of v is in the domain, enum slice Set(v)
\* succeeds and the target becomes exactly the split sequence of v (length,
\* order, duplicates and casing kept), replacing the previous target.
C7_SliceReplaces ==
    (IsSet("slice") /\ \A item \in ItemsOf(call.arg) : InDomain(item, sliceOptions)) =>
        /\ call.err = "nil"
        /\ IsSplitOf(sliceP, call.arg)

\* C7 witness: a duplicated item in the caller's casing replaces a non-empty target.
C7_Witness ==
    /\ IsSet("slice")
    /\ call.arg = <<"B", ",", "B">>
    /\ call.err = "nil"
    /\ pre.slice # <<>>
    /\ sliceP = << <<"B">>, <<"B">> >>

C9_DefaultsUnvalidated ==
    /\ IsNew("enum") => call.err = "nil" /\ enumP = dflt.enum
    /\ IsNew("slice") => call.err = "nil" /\ sliceP = dflt.slice
    /\ IsNew("regexp") => call.err = "nil" /\ reP = dflt.regexp
    /\ ("enum" \in registered /\ ~lastOK["enum"].some) =>
          enumP = dflt.enum /\ enumValue_String(enumP) = dflt.enum
    /\ ("slice" \in registered /\ ~lastOK["slice"].some) => sliceP = dflt.slice
    /\ ("regexp" \in registered /\ ~lastOK["regexp"].some) =>
          reP = dflt.regexp /\ regexpValue_String(reP) = dflt.regexp
    /\ lastOK["enum"].some => InDomain(enumP, enumOptions)
    /\ lastOK["slice"].some =>
          \A i \in 1..Len(sliceP) : InDomain(sliceP[i], sliceOptions)
    /\ lastOK["regexp"].some => Matches(re, reP)

\* C9 witness: a default outside the domain, written over a different prior
\* value, is still the target after a Set that failed.
C9_Witness ==
    /\ IsSet("enum")
    /\ call.err # "nil"
    /\ ~lastOK["enum"].some
    /\ enumP = <<"z">>
    /\ ~InDomain(enumP, enumOptions)

\* C10: last write wins: the target of every adapter equals the argument of
\* its most recent successful Set (for the slice adapter its split sequence),
\* or the construction default (absent for the nilable adapters) if none
\* succeeded; and a call on one adapter changes no other adapter's target.
C10_LastWriteWins ==
    /\ strP = (IF lastOK["string"].some THEN PresentString(lastOK["string"].arg)
               ELSE AbsentString)
    /\ boolP = (IF lastOK["bool"].some
                THEN PresentBool(lastOK["bool"].arg \in TrueSpellings)
                ELSE AbsentBool)
    /\ "enum" \in registered =>
          enumP = (IF lastOK["enum"].some THEN lastOK["enum"].arg ELSE dflt.enum)
    /\ "slice" \in registered =>
          IF lastOK["slice"].some THEN IsSplitOf(sliceP, lastOK["slice"].arg)
          ELSE sliceP = dflt.slice
    /\ "regexp" \in registered =>
          reP = (IF lastOK["regexp"].some THEN lastOK["regexp"].arg ELSE dflt.regexp)
    /\ \A k \in Kinds \ {call.kind} : Targets[k] = pre[k]

====
